---- MODULE Spec2Model ----
(***************************************************************************)
(* A model of the FRED data acquisition and caching layer:                 *)
(*   src/src/utilities.py   _make_session, _cache_paths, _load_metadata,   *)
(*                          save_atomic, fetch_with_cache                  *)
(*   src/src/get_data/run.py  go (the three per-frequency fetch loops)     *)
(*                                                                         *)
(* The file system is a function from paths to files.  One call of         *)
(* fetch_with_cache is a small step machine (pc): the entry up to the      *)
(* request, one step per HTTP attempt of the retrying session, and the     *)
(* steps of save_atomic (temporary file, rename, sidecar).  The process    *)
(* may crash between any two steps; the disk survives a crash.  Another    *)
(* process that opens a file finds what the file system of the current     *)
(* state holds, so a property of every reachable file system is a property *)
(* of everything a concurrent reader can observe.                          *)
(***************************************************************************)
EXTENDS Integers, Sequences, FiniteSets, TLC

\* ------------------------------------------------------------- bounds
\* The clock runs over 0..MaxTime, in days.
MaxTime == 2
\* fetch_with_cache is called with max_age_days in 0..MaxAgeDays.
MaxAgeDays == 1
\* The server publishes versions 1..MaxVer of a series.
MaxVer == 2
\* A frequency group of the series configuration lists at most MaxGroup series.
MaxGroup == 2

\* ---------------------------------------------------- program constants
\* Retry(total=retries), retries=3
Retries == 3
\* fetch_with_cache(..., max_age_days=30, ...), the default go() relies on
DefaultMaxAgeDays == 30

StatusForcelist == {429, 500, 502, 503, 504}
CACHE_META_SUFFIX == <<"meta", "json">>
Formats == {"parquet", "feather", "csv"}
DefaultFmt == "parquet"
DefaultDest == "data/orig"

\* ------------------------------------------------------------- values
\* Python's None, where a str is optional; a str is a tuple too, so that the
\* two compare: <<"etag", 2>> is the ETag of version 2, <<"">> the empty str.
None == <<"None">>
\* The series a direct caller fetches, and the series of a configuration.
CallSeries == {"FOO"}
ConfigSeries == {"A", "B", "C"}
\* go()'s --output_path / --artifact_name
OutputPath == <<"data/wip", "fred_raw", "parquet">>

\* ---------------------------------------------------------------- paths
\* A path is <<directory, c1, ..., cn>>: the file name is c1.c2. ... .cn
\* Path.suffix: the last dot-component of the name ("" if there is none).
Suffix(p) == IF Len(p) >= 3 THEN <<p[Len(p)]>> ELSE <<>>

\* Path.with_suffix(s): the name with its last suffix replaced by s.
WithSuffix(p, s) == SubSeq(p, 1, Len(p) - Len(Suffix(p))) \o s

\* _cache_paths(dest, series_id, extension) -> (data_path, meta_path)
CachePaths(dest, series_id, extension) ==
    << <<dest, series_id, "orig", extension>>,
       <<dest, series_id, "orig">> \o CACHE_META_SUFFIX >>

\* save_atomic: tmp = data_path.with_suffix(data_path.suffix + ".tmp")
TmpPathDirect(data_path) == data_path
TmpPath(data_path) == WithSuffix(data_path, Suffix(data_path) \o <<"tmp">>)

\* save_atomic: meta_path = data_path.with_suffix(CACHE_META_SUFFIX)
SidecarPathAppended(data_path) == data_path \o CACHE_META_SUFFIX
SidecarPath(data_path) == WithSuffix(data_path, CACHE_META_SUFFIX)

\* The paths the program touches when it caches the series S in format fmt.
PathsOf(S, fmt) ==
    LET data == {CachePaths(DefaultDest, s, fmt)[1] : s \in S}
    IN  data \cup {TmpPath(p) : p \in data}
             \cup {SidecarPath(p) : p \in data}
             \cup {CachePaths(DefaultDest, s, fmt)[2] : s \in S}

\* --------------------------------------------------------------- frames
\* A DataFrame: its column names, its rows (one record per row) and whether
\* its columns carry their types (datetime64 / float64) or are plain text.
NoFrame == [cols |-> <<>>, rows |-> <<>>, typed |-> FALSE]

\* The observations the server holds for version v of a series: v records,
\* every second one with the FRED missing-value text ".".
ObsOf(v) == [i \in 1..v |-> [date |-> i, value |-> IF i % 2 = 1 THEN "1.5" ELSE "."]]

\* pd.to_numeric(..., errors="coerce"): text that is no number becomes NaN.
ToNumeric(s) == IF s = "." THEN "NaN" ELSE s

\* fetch_with_cache: the normalized two-column frame of a payload.
Normalize(series_id, observations) ==
    [cols |-> <<"date", series_id>>,
     rows |-> [i \in 1..Len(observations) |->
                  [date |-> observations[i].date,
                   value |-> ToNumeric(observations[i].value)]],
     typed |-> TRUE]

\* ---------------------------------------------------------------- files
\* kind: "absent" | "table" | "text".  A table is a frame encoded in enc,
\* complete or cut short; a text file is json.dumps(meta), complete or torn.
\* mtime is st_mtime, kept for tables only: the program reads no other.
\* A dict is a function from its keys; {} is the function with no key.
EmptyDict == [k \in {} |-> None]
NoMeta == EmptyDict
NoFile ==
    [kind |-> "absent", enc |-> "none", frame |-> NoFrame, meta |-> NoMeta,
     complete |-> TRUE, mtime |-> 0]
TableFile(fmt, df, whole, t) ==
    [kind |-> "table", enc |-> fmt, frame |-> df, meta |-> NoMeta,
     complete |-> whole, mtime |-> t]
TextFile(m, whole) ==
    [kind |-> "text", enc |-> "json", frame |-> NoFrame, meta |-> m,
     complete |-> whole, mtime |-> 0]

\* What DataFrame.to_parquet / to_feather / to_csv put in the file.  to_csv
\* also writes the index, as a first unnamed column, and writes text only.
Encode(fmt, df) ==
    IF fmt \in {"parquet", "feather"}
    THEN df
    ELSE [cols |-> <<"">> \o df.cols, rows |-> df.rows, typed |-> FALSE]

\* pd.read_parquet / read_feather / read_csv of a file: ok is FALSE when the
\* read raises.  read_csv names the unnamed first column "Unnamed: 0".
ReadTable(fmt, file) ==
    IF file.kind # "table" \/ ~file.complete \/ file.enc # fmt
    THEN [ok |-> FALSE, frame |-> NoFrame]
    ELSE IF fmt \in {"parquet", "feather"}
    THEN [ok |-> TRUE, frame |-> file.frame]
    ELSE [ok |-> TRUE,
          frame |-> [file.frame EXCEPT
                        !.cols = [i \in 1..Len(file.frame.cols) |->
                                    IF file.frame.cols[i] = ""
                                    THEN "Unnamed: 0" ELSE file.frame.cols[i]]]]

\* Path.exists()
Exists(fs, p) == fs[p].kind # "absent"

\* json.loads(meta_path.read_text()): raises on text that is no JSON document.
\* json.dumps of a dict of numbers, strings and nulls loads back as that dict.
JsonLoads(file) ==
    IF file.kind = "text" /\ file.complete
    THEN [ok |-> TRUE, value |-> file.meta]
    ELSE [ok |-> FALSE, value |-> EmptyDict]

\* _load_metadata(meta_path): {} when the file does not exist, else json.loads
\* of its text; ok is FALSE when json.loads raises json.JSONDecodeError.
LoadMetadata(fs, meta_path) ==
    IF ~Exists(fs, meta_path)
    THEN [ok |-> TRUE, value |-> EmptyDict]
    ELSE JsonLoads(fs[meta_path])

\* dict.get(key): None when the key is absent.
Get(d, k) == IF k \in DOMAIN d THEN d[k] ELSE None
\* Python truthiness of a str-or-None value.
Truthy(v) == v # None /\ v # <<"">>

\* fetch_with_cache, step 2: the conditional headers built from the metadata.
CondHeadersSwapped(m) ==
    [h \in {k \in {"If-None-Match", "If-Modified-Since"} :
               Truthy(Get(m, IF k = "If-None-Match" THEN "etag" ELSE "last_modified"))}
        |-> Get(m, IF h = "If-None-Match" THEN "last_modified" ELSE "etag")]
CondHeaders(m) ==
    [h \in {k \in {"If-None-Match", "If-Modified-Since"} :
               Truthy(Get(m, IF k = "If-None-Match" THEN "etag" ELSE "last_modified"))}
        |-> Get(m, IF h = "If-None-Match" THEN "etag" ELSE "last_modified")]

\* fetch_with_cache, step 1: age = (time.time() - st_mtime) / 86400, in days,
\* and the test age <= max_age_days.
IsFreshAnyAge(fs, data_path, t, max_age_days) == Exists(fs, data_path)
IsFresh(fs, data_path, t, max_age_days) ==
    Exists(fs, data_path) /\ t - fs[data_path].mtime <= max_age_days

\* ------------------------------------------------------------- server
\* The validators the server sends with version v.
ETagOf(v) == <<"etag", v>>
LastModifiedOf(v) == <<"date", v>>

\* The JSON bodies of a 200 answer: "ok" holds observations and count,
\* "nocount" observations only, "null" has observations: null, "nokey" has no
\* observations key, "notjson" is no JSON document.  Any other answer has an
\* empty body.
Bodies == {"ok", "nocount", "null", "nokey", "notjson"}
Statuses == {200, 304, 404, 503}

\* An HTTP response as the session hands it over.
Response(status, etag, last_modified, body, v) ==
    [status_code |-> status,
     headers |-> [h \in ({"ETag" : x \in {etag} \ {None}}
                         \cup {"Last-Modified" : x \in {last_modified} \ {None}})
                     |-> IF h = "ETag" THEN etag ELSE last_modified],
     body |-> body, ver |-> v]
NoResponse == Response(0, None, None, "empty", 0)

\* The answers the server may give while it holds version v: a 200 with the
\* version's observations and any of its validators, a 200 with a body that
\* is not the expected payload, or a bare status.
Answers(v) ==
    {Response(200, e, l, "ok", v) :
        e \in {None, ETagOf(v)}, l \in {None, LastModifiedOf(v)}}
    \cup {Response(200, None, None, b, v) : b \in Bodies \ {"ok"}}
    \cup {Response(s, None, None, "empty", v) : s \in Statuses \ {200}}

\* resp.json(): the payload of a body, as a dict; ok is FALSE when the body is
\* no JSON document (requests.exceptions.JSONDecodeError).
Payload(r) ==
    CASE r.body = "ok" ->
           [ok |-> TRUE,
            value |-> [count |-> r.ver,
                       observations |-> [null |-> FALSE, items |-> ObsOf(r.ver)]]]
      [] r.body = "nocount" ->
           [ok |-> TRUE,
            value |-> [observations |-> [null |-> FALSE, items |-> ObsOf(r.ver)]]]
      [] r.body = "null" ->
           [ok |-> TRUE,
            value |-> [count |-> 0, observations |-> [null |-> TRUE, items |-> <<>>]]]
      [] r.body = "nokey" ->
           [ok |-> TRUE, value |-> [count |-> 0]]
      [] OTHER ->
           [ok |-> FALSE, value |-> EmptyDict]

\* ------------------------------------------------------- retry policy
\* urllib3 Retry.increment(): one retry is taken from total.
RetryIncrement(total) == total - 1
\* urllib3 Retry.is_exhausted(): no retry is left once total is below zero.
IsExhaustedEarly(total) == total <= 0
IsExhausted(total) == total < 0
\* Retry.is_retry(): GET is an allowed method; the status decides.
IsRetry(status) == status \in StatusForcelist
\* Response.raise_for_status(): HTTPError on a 4xx or 5xx status.
RaisesForStatus(status) == 400 <= status /\ status < 600

\* ------------------------------------------------------------- state
\* ------------------------------------------------------------ logging
\* The levels of the logging module the code names.
NOTSET == 0
DEBUG == 10
WARNING == 30

\* The names and directories new_logger is called with, and the values of
\* log_level: 15 is none of the five levels.
LoggerNames == {"src.utilities", "etl", "etl.get_data"}
LogDirs == {"logs/utils", "logs/etl_clean"}
LogLevels == {10, 30, 15}

\* A name of logging's registry that no Logger has been made for yet.
NoLogger == [name |-> "", level |-> NOTSET, handlers |-> <<>>]

\* logging.getLogger(name): the logger the registry holds for the name, made
\* on the first call, with no handler and no level.
GetLogger(loggerDict, name) ==
    IF loggerDict[name] # NoLogger THEN loggerDict[name]
    ELSE [name |-> name, level |-> NOTSET, handlers |-> <<>>]

\* The logger a record of the named logger is handed to next (propagate):
\* the nearest ancestor by dotted name that has a Logger; the root logger,
\* which new_logger never gives a handler, ends the walk.
ParentOf(loggerDict, name) ==
    IF name = "etl.get_data" /\ loggerDict["etl"] # NoLogger THEN "etl" ELSE "root"

\* Logger.callHandlers: the handlers of the logger and of its ancestors
\* whose level lets a record of level lvl through, by what they write to.
CallHandlers(loggerDict, name, lvl) ==
    LET own(n) == {loggerDict[n].handlers[i].target :
                      i \in {j \in 1..Len(loggerDict[n].handlers) :
                                lvl >= loggerDict[n].handlers[j].level}}
        up == ParentOf(loggerDict, name)
    IN  own(name) \cup (IF up = "root" THEN {} ELSE own(up))

\* new_logger's tail: both handlers are added when the logger has none.
AttachAlways(handlers, rfh, ch) == handlers \o <<rfh, ch>>
Attach(handlers, rfh, ch) ==
    IF handlers = <<>> THEN <<rfh, ch>> ELSE handlers

\* new_logger(logger_name, rel_dir_path, log_level=log_level) on the state st
\* of the logging module and of the log directories; returned is the name
\* attribute of the logger it returns, emitted what the pre-logging warning
\* of this call was written to.
NewLogger(st, logger_name, rel_dir_path, log_level) ==
    LET logger == GetLogger(st.loggerDict, logger_name)
        valid == log_level \in {x * 10 : x \in 1..5}
        rfh == [kind |-> "RotatingFileHandler",
                target |-> <<rel_dir_path, logger_name>>, level |-> DEBUG]
        ch == [kind |-> "StreamHandler", target |-> <<"sys.stdout">>,
               level |-> WARNING]
        set == [logger EXCEPT
                   !.level = IF valid THEN log_level ELSE DEBUG,
                   !.handlers = Attach(logger.handlers, rfh, ch)]
        dict == [st.loggerDict EXCEPT ![logger_name] = set]
    IN  [captureWarnings |-> TRUE,
         loggerDict |-> dict,
         dirs |-> st.dirs \cup {rel_dir_path},
         files |-> st.files \cup {<<rel_dir_path, logger_name>>},
         emitted |-> IF valid \/ WARNING < set.level THEN {}
                     ELSE CallHandlers(dict, logger_name, WARNING),
         logger_name |-> logger_name,
         returned |-> set.name]

\* The logging module and the log directories before any module of the
\* program is imported, and after `import src.utilities`, whose last
\* top-level statement is util_logger = new_logger(__name__, 'logs/utils').
NoLogging ==
    [captureWarnings |-> FALSE, loggerDict |-> [n \in LoggerNames |-> NoLogger],
     dirs |-> {}, files |-> {}, emitted |-> {}, logger_name |-> "",
     returned |-> ""]
UtilitiesImported == NewLogger(NoLogging, "src.utilities", "logs/utils", DEBUG)

VARIABLES
    now,        \* time.time(), in days
    srv,        \* the version of the series the server holds
    disk,       \* the file system: path -> file
    cfgFmt,     \* the storage format the caller uses for the cache
    logging,    \* the logging module's loggers and the log directories
    pc,         \* where the running call stands; "idle" between calls
    call,       \* the locals of the running fetch_with_cache call
    sv,         \* the locals of the running save_atomic call
    requests,   \* the HTTP requests the running call has sent, in order
    disk0,      \* the file system as the running call found it
    go          \* the ingestion step: its position, lists and log

vars == <<now, srv, disk, cfgFmt, logging, pc, call, sv, requests, disk0, go>>

NoCall ==
    [series_id |-> "", fmt |-> "none", max_age_days |-> 0,
     data_path |-> <<>>, meta_path |-> <<>>, meta |-> EmptyDict,
     headers |-> EmptyDict, total |-> 0, resp |-> NoResponse,
     series_df |-> NoFrame, outcome |-> "none", result |-> NoFrame]
NoSave ==
    [df |-> NoFrame, data_path |-> <<>>, tmp |-> <<>>, meta |-> EmptyDict,
     fmt |-> "none"]
\* go(): pc is the loop it is in ("monthly_series", "hf_series", "lf_series"),
\* "combine", "saving", "finished" or "aborted" ("off": go() is not running);
\* fred_series is the configuration, idx the position in the running loop,
\* dfs the three lists of frames (each frame by its series), errors what
\* logger.error was given, fetched the series fetch_with_cache was called
\* for, raised the exception that left go().
NoGo ==
    [pc |-> "off",
     fred_series |-> [monthly_series |-> <<>>, hf_series |-> <<>>, lf_series |-> <<>>],
     idx |-> 0,
     dfs |-> [monthly_series |-> <<>>, hf_series |-> <<>>, lf_series |-> <<>>],
     errors |-> <<>>, fetched |-> <<>>, raised |-> "none"]

\* The cached read both return paths of fetch_with_cache perform: the frame
\* for parquet and feather (the read's own error if it fails); for csv the
\* frame, or, the error logged, a fall through to the code that follows.
CachedRead(fmt, file) ==
    LET rd == ReadTable(fmt, file) IN
    [returns |-> rd.ok, raises |-> ~rd.ok /\ fmt \in {"parquet", "feather"},
     frame |-> rd.frame]

\* --------------------------------------------------------- save_atomic
\* The call save_atomic(df, data_path, meta, fmt): its locals, tmp included.
SaveAtomicLocals(df, data_path, meta, fmt) ==
    [df |-> df, data_path |-> data_path, tmp |-> TmpPath(data_path),
     meta |-> meta, fmt |-> fmt]

\* Path.replace(): src takes dst's place, with its content and mtime.
Rename(fs, src, dst) ==
    IF src = dst THEN fs ELSE [fs EXCEPT ![dst] = fs[src], ![src] = NoFile]

\* df.to_parquet(tmp) / to_feather / to_csv opens tmp and starts writing: the
\* file exists and is cut short until the write ends.
WriteTmpOpenSidecarFirst ==
    /\ pc = "save_tmp"
    /\ disk' = IF Cardinality(DOMAIN sv.meta) > 0
               THEN [disk EXCEPT
                       ![SidecarPath(sv.data_path)] = TextFile(sv.meta, TRUE),
                       ![sv.tmp] = TableFile(sv.fmt, Encode(sv.fmt, sv.df), FALSE, now)]
               ELSE [disk EXCEPT
                       ![sv.tmp] = TableFile(sv.fmt, Encode(sv.fmt, sv.df), FALSE, now)]
    /\ pc' = "save_tmp_open"
    /\ UNCHANGED <<now, srv, cfgFmt, logging, call, sv, requests, disk0, go>>
WriteTmpOpen ==
    /\ pc = "save_tmp"
    /\ disk' = [disk EXCEPT ![sv.tmp] =
                    TableFile(sv.fmt, Encode(sv.fmt, sv.df), FALSE, now)]
    /\ pc' = "save_tmp_open"
    /\ UNCHANGED <<now, srv, cfgFmt, logging, call, sv, requests, disk0, go>>

\* ... the write ends: tmp holds the whole frame.
WriteTmpClose ==
    /\ pc = "save_tmp_open"
    /\ disk' = [disk EXCEPT ![sv.tmp] =
                    TableFile(sv.fmt, Encode(sv.fmt, sv.df), TRUE, now)]
    /\ pc' = "save_replace"
    /\ UNCHANGED <<now, srv, cfgFmt, logging, call, sv, requests, disk0, go>>

\* ... or the write fails (disk full): OSError leaves save_atomic and its caller.
WriteTmpFail ==
    /\ pc = "save_tmp_open"
    /\ pc' = "done"
    /\ call' = [call EXCEPT !.outcome = "OSError"]
    /\ UNCHANGED <<now, srv, disk, cfgFmt, logging, sv, requests, disk0, go>>

\* tmp.replace(data_path)
Replace ==
    /\ pc = "save_replace"
    /\ disk' = Rename(disk, sv.tmp, sv.data_path)
    /\ IF Cardinality(DOMAIN sv.meta) > 0
       THEN pc' = "save_meta" /\ call' = call
       ELSE pc' = "done" /\ call' = [call EXCEPT !.outcome = "return"]
    /\ UNCHANGED <<now, srv, cfgFmt, logging, sv, requests, disk0, go>>

\* meta_path.write_text(json.dumps(meta)) opens the sidecar, which truncates
\* it, and starts writing: until the write ends the text is torn.
WriteMetaOpen ==
    /\ pc = "save_meta"
    /\ disk' = [disk EXCEPT ![SidecarPath(sv.data_path)] = TextFile(sv.meta, FALSE)]
    /\ pc' = "save_meta_open"
    /\ UNCHANGED <<now, srv, cfgFmt, logging, call, sv, requests, disk0, go>>

\* ... the write ends; save_atomic returns, and fetch_with_cache returns
\* series_df.
WriteMetaClose ==
    /\ pc = "save_meta_open"
    /\ disk' = [disk EXCEPT ![SidecarPath(sv.data_path)] = TextFile(sv.meta, TRUE)]
    /\ pc' = "done"
    /\ call' = [call EXCEPT !.outcome = "return", !.result = call.series_df]
    /\ UNCHANGED <<now, srv, cfgFmt, logging, sv, requests, disk0, go>>

\* ---------------------------------------------------- fetch_with_cache
\* What the call does with a response that is not served from the cache
\* (from raise_for_status() to the call of save_atomic): the next pc, the
\* locals and save_atomic's locals.
OnFreshResponse(c, t, r) ==
    LET payload == Payload(r)
        stop(kind) == [pc |-> "done", call |-> [c EXCEPT !.outcome = kind], sv |-> NoSave]
    IN  IF RaisesForStatus(r.status_code) THEN stop("HTTPError")
        ELSE IF ~payload.ok THEN stop("requests.JSONDecodeError")
        ELSE IF "observations" \notin DOMAIN payload.value THEN stop("KeyError")
        ELSE IF payload.value.observations.null THEN stop("FetchError")
        ELSE IF "count" \notin DOMAIN payload.value THEN stop("KeyError")
        ELSE LET df == Normalize(c.series_id, payload.value.observations.items)
                 m == [fetched_at |-> t,
                       etag |-> Get(r.headers, "ETag"),
                       last_modified |-> Get(r.headers, "Last-Modified")]
             IN  [pc |-> "save_tmp",
                  call |-> [c EXCEPT !.series_df = df],
                  sv |-> SaveAtomicLocals(df, c.data_path, m, c.fmt)]

\* What the call does with the response the session handed over: a 304 with a
\* data file on disk returns the cached read; anything else goes on.
OnResponseResave(c, fs, t, r) ==
    LET rd == CachedRead(c.fmt, fs[c.data_path])
        c1 == [c EXCEPT !.resp = r]
    IN  IF r.status_code = 304 /\ Exists(fs, c.data_path) /\ rd.returns
        THEN [pc |-> "save_tmp",
              call |-> [c1 EXCEPT !.series_df = rd.frame],
              sv |-> SaveAtomicLocals(rd.frame, c.data_path,
                                      [c.meta EXCEPT !["fetched_at"] = t], c.fmt)]
        ELSE OnFreshResponse(c1, t, r)
OnResponse(c, fs, t, r) ==
    LET rd == CachedRead(c.fmt, fs[c.data_path])
        c1 == [c EXCEPT !.resp = r]
    IN  IF r.status_code = 304 /\ Exists(fs, c.data_path) /\ (rd.returns \/ rd.raises)
        THEN [pc |-> "done",
              call |-> [c1 EXCEPT !.outcome = IF rd.returns THEN "return" ELSE "ArrowInvalid",
                                  !.result = rd.frame],
              sv |-> NoSave]
        ELSE OnFreshResponse(c1, t, r)

\* The call fetch_with_cache(series_id, uri, dest, max_age_days, fmt) up to
\* the request: the paths, the metadata, the freshness test and the cached
\* read, or else the conditional headers and a new session.
FetchEnter(series_id, max_age_days, fmt) ==
    LET paths == CachePaths(DefaultDest, series_id, fmt)
        lm == LoadMetadata(disk, paths[2])
        rd == CachedRead(fmt, disk[paths[1]])
        c == [NoCall EXCEPT !.series_id = series_id, !.fmt = fmt,
                            !.max_age_days = max_age_days,
                            !.data_path = paths[1], !.meta_path = paths[2],
                            !.meta = lm.value]
    IN  /\ pc = "idle"
        /\ disk0' = disk
        /\ requests' = <<>>
        /\ sv' = NoSave
        /\ IF ~lm.ok
           THEN pc' = "done" /\ call' = [c EXCEPT !.outcome = "json.JSONDecodeError"]
           ELSE IF IsFresh(disk, paths[1], now, max_age_days)
                   /\ (rd.returns \/ rd.raises)
           THEN /\ pc' = "done"
                /\ call' = [c EXCEPT
                              !.outcome = IF rd.returns THEN "return" ELSE "ArrowInvalid",
                              !.result = rd.frame]
           ELSE /\ pc' = "request"
                /\ call' = [c EXCEPT !.headers = CondHeaders(lm.value),
                                     !.total = Retries]
        /\ UNCHANGED <<now, srv, disk, cfgFmt, logging>>

\* session.get(request_uri, headers=headers), one attempt: the request goes
\* out and the server answers r.  A status of the forcelist is retried while
\* the Retry object is not exhausted, and raises RetryError once it is; any
\* other answer is handed to the call.
HttpAttempt(r) ==
    /\ pc = "request"
    /\ requests' = Append(requests, [series_id |-> call.series_id,
                                     headers |-> call.headers,
                                     status |-> r.status_code])
    /\ IF IsRetry(r.status_code)
       THEN IF IsExhausted(RetryIncrement(call.total))
            THEN /\ pc' = "done"
                 /\ call' = [call EXCEPT !.total = RetryIncrement(call.total),
                                         !.outcome = "RetryError"]
                 /\ sv' = sv
            ELSE /\ pc' = "request"
                 /\ call' = [call EXCEPT !.total = RetryIncrement(call.total)]
                 /\ sv' = sv
       ELSE LET nxt == OnResponse(call, disk, now, r)
            IN  pc' = nxt.pc /\ call' = nxt.call /\ sv' = nxt.sv
    /\ UNCHANGED <<now, srv, disk, cfgFmt, logging, disk0, go>>

Request == \E r \in Answers(srv) : HttpAttempt(r)

\* ------------------------------------------------------ the environment
\* A caller other than go(): one call with the cache's format and some
\* max_age_days, and its return (or its exception) taken.
Call ==
    /\ go.pc = "off"
    /\ \E s \in CallSeries, d \in 0..MaxAgeDays : FetchEnter(s, d, cfgFmt)
    /\ go' = go

Return ==
    /\ go.pc = "off"
    /\ pc = "done"
    /\ pc' = "idle"
    /\ call' = NoCall /\ sv' = NoSave /\ requests' = <<>> /\ disk0' = disk
    /\ UNCHANGED <<now, srv, disk, cfgFmt, logging, go>>

\* The process dies inside a call; the file system stays as it is, and the
\* next run starts from it.
Crash ==
    /\ go.pc = "off"
    /\ pc \notin {"idle", "done"}
    /\ pc' = "idle"
    /\ call' = NoCall /\ sv' = NoSave /\ requests' = <<>> /\ disk0' = disk
    /\ UNCHANGED <<now, srv, disk, cfgFmt, logging, go>>

\* A day passes between two calls.  A call itself (timeout=(5,30), the
\* backoff of three retries, the file writes) takes no time on this scale.
Tick ==
    /\ now < MaxTime
    /\ pc = "idle"
    /\ now' = now + 1
    /\ UNCHANGED <<srv, disk, cfgFmt, logging, pc, call, sv, requests, disk0, go>>

\* The server publishes the next version of the series.  A call meets the
\* server in the one answer that is not retried, so an update during a call
\* is an update before it or after it.
ServerUpdate ==
    /\ srv < MaxVer
    /\ pc = "idle"
    /\ srv' = srv + 1
    /\ UNCHANGED <<now, disk, cfgFmt, logging, pc, call, sv, requests, disk0, go>>

\* ------------------------------------------------------------- go()
Groups == <<"monthly_series", "hf_series", "lf_series">>
GroupNames == {Groups[i] : i \in 1..Len(Groups)}
NextGroup(g) ==
    CASE g = "monthly_series" -> "hf_series"
      [] g = "hf_series" -> "lf_series"
      [] OTHER -> "combine"

\* The loop body up to the call: fetch_with_cache(series_id=series,
\* request_uri=..., dest="data/orig"), with its defaults for the rest.
GoFetch ==
    /\ go.pc \in GroupNames
    /\ go.idx <= Len(go.fred_series[go.pc])
    /\ FetchEnter(go.fred_series[go.pc][go.idx], DefaultMaxAgeDays, DefaultFmt)
    /\ go' = [go EXCEPT !.fetched = Append(@, go.fred_series[go.pc][go.idx])]

\* The rest of the loop body, given how the call ended (kind: "return" or the
\* exception's class): the frame is appended; an HTTPError is caught and
\* logged; then logger.info formats dfs[-1].shape, which raises IndexError on
\* an empty list.  Any other exception leaves go().
AfterFetch(g, kind) ==
    IF kind = "return"
    THEN [g EXCEPT !.dfs[g.pc] = Append(@, g.fred_series[g.pc][g.idx]),
                   !.idx = @ + 1]
    ELSE IF kind = "HTTPError"
    THEN IF Len(g.dfs[g.pc]) = 0
         THEN [g EXCEPT !.errors = Append(@, g.fred_series[g.pc][g.idx]),
                        !.pc = "aborted", !.raised = "IndexError"]
         ELSE [g EXCEPT !.errors = Append(@, g.fred_series[g.pc][g.idx]),
                        !.idx = @ + 1]
    ELSE [g EXCEPT !.pc = "aborted", !.raised = kind]

GoAfterFetch ==
    /\ go.pc \in GroupNames
    /\ pc = "done"
    /\ go' = AfterFetch(go, call.outcome)
    /\ pc' = "idle"
    /\ call' = NoCall /\ sv' = NoSave /\ requests' = <<>> /\ disk0' = disk
    /\ UNCHANGED <<now, srv, disk, cfgFmt, logging>>

\* The for loop is through its list: the next loop starts.
GoNextGroup ==
    /\ go.pc \in GroupNames
    /\ pc = "idle"
    /\ go.idx > Len(go.fred_series[go.pc])
    /\ go' = [go EXCEPT !.pc = NextGroup(go.pc), !.idx = 1]
    /\ UNCHANGED <<now, srv, disk, cfgFmt, logging, pc, call, sv, requests, disk0>>

\* pd.concat of each list (ValueError on an empty list), then of the three,
\* and save_atomic(comb_df, output_path/artifact_name, {}).
GoCombine ==
    /\ go.pc = "combine"
    /\ pc = "idle"
    /\ IF \E g \in GroupNames : Len(go.dfs[g]) = 0
       THEN /\ go' = [go EXCEPT !.pc = "aborted", !.raised = "ValueError"]
            /\ UNCHANGED <<pc, sv>>
       ELSE /\ go' = [go EXCEPT !.pc = "saving"]
            /\ pc' = "save_tmp"
            /\ sv' = SaveAtomicLocals(
                        [cols |-> go.dfs.monthly_series \o go.dfs.hf_series
                                     \o go.dfs.lf_series,
                         rows |-> <<>>, typed |-> TRUE],
                        OutputPath, EmptyDict, DefaultFmt)
    /\ UNCHANGED <<now, srv, disk, cfgFmt, logging, call, requests, disk0>>

\* save_atomic returned (or raised): the artifact is logged and go() ends.
GoSaved ==
    /\ go.pc = "saving"
    /\ pc = "done"
    /\ go' = IF call.outcome = "return"
             THEN [go EXCEPT !.pc = "finished"]
             ELSE [go EXCEPT !.pc = "aborted", !.raised = call.outcome]
    /\ pc' = "idle"
    /\ call' = NoCall /\ sv' = NoSave /\ requests' = <<>> /\ disk0' = disk
    /\ UNCHANGED <<now, srv, disk, cfgFmt, logging>>

\* The series configurations: three lists of at most MaxGroup series, no
\* series listed twice.
Lists(S, n) == UNION {[1..k -> S] : k \in 0..n}
NoRepeat(l) == \A i, j \in 1..Len(l) : l[i] = l[j] => i = j
Configs ==
    {c \in [monthly_series : Lists(ConfigSeries, MaxGroup),
            hf_series : Lists(ConfigSeries, MaxGroup),
            lf_series : Lists(ConfigSeries, MaxGroup)] :
        NoRepeat(c.monthly_series \o c.hf_series \o c.lf_series)}

InitGo ==
    /\ now = 0
    /\ srv = 1
    /\ cfgFmt = DefaultFmt
    /\ logging = NewLogger(UtilitiesImported, "etl.get_data", "logs/etl_clean", DEBUG)
    /\ disk = [p \in PathsOf(ConfigSeries, DefaultFmt)
                      \cup {OutputPath, TmpPath(OutputPath)} |-> NoFile]
    /\ pc = "idle"
    /\ call = NoCall
    /\ sv = NoSave
    /\ requests = <<>>
    /\ disk0 = disk
    /\ \E c \in Configs : go = [NoGo EXCEPT !.pc = "monthly_series",
                                            !.fred_series = c, !.idx = 1]

NextGo ==
    \/ GoFetch
    \/ Request
    \/ WriteTmpOpen
    \/ WriteTmpClose
    \/ WriteTmpFail
    \/ Replace
    \/ WriteMetaOpen
    \/ WriteMetaClose
    \/ GoAfterFetch
    \/ GoNextGroup
    \/ GoCombine
    \/ GoSaved

SpecGo == InitGo /\ [][NextGo]_vars

Init ==
    /\ now = 0
    /\ srv = 1
    /\ cfgFmt \in Formats
    /\ logging = UtilitiesImported
    /\ disk = [p \in PathsOf(CallSeries, cfgFmt) |-> NoFile]
    /\ pc = "idle"
    /\ call = NoCall
    /\ sv = NoSave
    /\ requests = <<>>
    /\ disk0 = disk
    /\ go = NoGo

Next ==
    \/ Call
    \/ Request
    \/ WriteTmpOpen
    \/ WriteTmpClose
    \/ WriteTmpFail
    \/ Replace
    \/ WriteMetaOpen
    \/ WriteMetaClose
    \/ Return
    \/ Crash
    \/ Tick
    \/ ServerUpdate

Spec == Init /\ [][Next]_vars

\* ---------------------------------------------------------- new_logger
\* Some module calls new_logger; nothing is being fetched meanwhile.
NewLoggerCall ==
    /\ pc = "idle"
    /\ \E n \in LoggerNames, d \in LogDirs, l \in LogLevels :
          logging' = NewLogger(logging, n, d, l)
    /\ UNCHANGED <<now, srv, disk, cfgFmt, pc, call, sv, requests, disk0, go>>

InitLog ==
    /\ now = 0
    /\ srv = 1
    /\ cfgFmt = DefaultFmt
    /\ logging = UtilitiesImported
    /\ disk = [p \in PathsOf(CallSeries, cfgFmt) |-> NoFile]
    /\ pc = "idle"
    /\ call = NoCall
    /\ sv = NoSave
    /\ requests = <<>>
    /\ disk0 = disk
    /\ go = NoGo

NextLog == NewLoggerCall

SpecLog == InitLog /\ [][NextLog]_vars

\* ================================================================ claims
\* The canonical data paths of the file system: the cache's data files and
\* go()'s output file (neither the temporary files nor the sidecars).
TargetPaths ==
    {p \in DOMAIN disk :
        \/ p = OutputPath
        \/ \E s \in CallSeries \cup ConfigSeries, f \in Formats :
              p = CachePaths(DefaultDest, s, f)[1]}

Whole(file) == file.kind = "table" /\ file.complete

\* The metadata the sidecar held when the running call started.
SidecarCorrupt0 ==
    Exists(disk0, call.meta_path) /\ ~JsonLoads(disk0[call.meta_path]).ok
Stored0 ==
    IF Exists(disk0, call.meta_path) /\ JsonLoads(disk0[call.meta_path]).ok
    THEN disk0[call.meta_path].meta ELSE EmptyDict

\* The data file was there, and not older than max_age_days, when the
\* running call started.
Fresh0 ==
    /\ Exists(disk0, call.data_path)
    /\ now - disk0[call.data_path].mtime <= call.max_age_days

\* Every attempt of the running call was answered with a retryable status.
AllRetryable ==
    /\ requests # <<>>
    /\ \A i \in 1..Len(requests) : requests[i].status \in StatusForcelist

Range(q) == {q[i] : i \in 1..Len(q)}

\* ---- C1: with a single writer, in every reachable state (hence in every
\* state a concurrent reader can observe, and in every state a crash leaves
\* behind) the file at a canonical target path is absent or a complete
\* table, never a partial one: until the rename it is the file the call
\* found, after the rename the complete new version; and a crash before the
\* rename leaves the file the call found.
C1_TargetState ==
    /\ \A p \in TargetPaths : ~Exists(disk, p) \/ Whole(disk[p])
    /\ pc \in {"save_tmp", "save_tmp_open", "save_replace"}
          => disk[sv.data_path] = disk0[sv.data_path]
    /\ pc \in {"save_meta", "save_meta_open"}
          => /\ Whole(disk[sv.data_path])
             /\ disk[sv.data_path].frame = Encode(sv.fmt, sv.df)
             /\ disk[sv.data_path].enc = sv.fmt
C1_CrashStep ==
    (pc \in {"save_tmp", "save_tmp_open", "save_replace"} /\ pc' = "idle")
        => disk'[sv.data_path] = disk0[sv.data_path]
C1_AtomicTarget == [](C1_TargetState) /\ [][C1_CrashStep]_vars

\* C1's case: a crash amid the write of the temporary file has left a cut
\* temporary file beside a complete earlier version of the data file.
C1_Witness ==
    /\ pc = "idle"
    /\ \E p \in TargetPaths :
          /\ Whole(disk[p])
          /\ disk[TmpPath(p)].kind = "table" /\ ~disk[TmpPath(p)].complete
          /\ disk[TmpPath(p)].frame # disk[p].frame

\* ---- C2: whenever fetch_with_cache is called while the data file exists
\* and its age is at most max_age_days, in any of the three formats, the
\* call returns the cached frame and sends no HTTP request.
C2_FreshServedFromCache ==
    (go.pc = "off" /\ pc = "done" /\ Fresh0)
        => /\ call.outcome = "return"
           /\ call.result = ReadTable(call.fmt, disk0[call.data_path]).frame
           /\ requests = <<>>

\* ---- C3: a sidecar that exists but is no valid JSON is treated as an
\* absent one: the metadata is empty and the call does not raise because
\* of it.
C3_CorruptSidecarAsAbsent ==
    (go.pc = "off" /\ pc = "done" /\ SidecarCorrupt0)
        => call.outcome # "json.JSONDecodeError"

\* ---- C4: when the server answers 304 and a cached data file exists, the
\* call returns the cached file's contents and writes nothing: the file
\* system (data file, its mtime, sidecar) is as the call found it.
C4_NotModifiedNoWrite ==
    /\ (pc = "done" /\ call.resp.status_code = 304 /\ Exists(disk0, call.data_path))
          => /\ call.outcome = "return"
             /\ call.result = ReadTable(call.fmt, disk0[call.data_path]).frame
             /\ disk = disk0
    /\ (pc \in {"save_tmp", "save_tmp_open", "save_replace", "save_meta",
                 "save_meta_open"} /\ go.pc # "saving")
          => ~(call.resp.status_code = 304 /\ Exists(disk0, call.data_path))

C4_Witness ==
    /\ pc = "done" /\ call.resp.status_code = 304
    /\ Exists(disk0, call.data_path) /\ call.outcome = "return"
    /\ Exists(disk0, call.meta_path)

\* ---- C5: every request the call sends carries If-None-Match equal to the
\* etag the sidecar stored, if it stored one, and If-Modified-Since equal to
\* the stored last_modified, if it stored one; a header whose field is
\* absent (or null, or whose sidecar is absent) is not sent.
C5_ConditionalHeaders ==
    \A i \in 1..Len(requests) :
        LET h == requests[i].headers IN
        /\ IF Get(Stored0, "etag") # None
           THEN "If-None-Match" \in DOMAIN h
                /\ h["If-None-Match"] = Stored0["etag"]
           ELSE "If-None-Match" \notin DOMAIN h
        /\ IF Get(Stored0, "last_modified") # None
           THEN "If-Modified-Since" \in DOMAIN h
                /\ h["If-Modified-Since"] = Stored0["last_modified"]
           ELSE "If-Modified-Since" \notin DOMAIN h

\* C5's case: a request went out for a series whose sidecar stored both
\* validators.
C5_Witness ==
    /\ requests # <<>>
    /\ Get(Stored0, "etag") # None
    /\ Get(Stored0, "last_modified") # None

\* ---- C6 (as amended): when every attempt is answered with a retryable
\* status, one call sends exactly Retries + 1 requests (the first attempt
\* and Retries retries; 4 by default) and then fails; no call sends more.
C6_RetryBound ==
    /\ Len(requests) <= Retries + 1
    /\ (pc = "done" /\ AllRetryable)
          => Len(requests) = Retries + 1 /\ call.outcome = "RetryError"
    /\ (pc = "done" /\ call.outcome = "RetryError")
          => Len(requests) = Retries + 1 /\ AllRetryable

\* C6's case: a call has failed after 503 answers only.
C6_Witness ==
    /\ pc = "done" /\ call.outcome = "RetryError"
    /\ \A i \in 1..Len(requests) : requests[i].status = 503

\* ---- C6 (as stated): when every attempt is answered 503, one call sends
\* exactly `retries` (3) requests before the failure is surfaced.
C6_ExactlyRetriesRequests ==
    (pc = "done" /\ AllRetryable) => Len(requests) = Retries

\* ---- C7: when the retries are exhausted on retryable statuses, the last
\* error response is handed to fetch_with_cache, which fails with the HTTP
\* failure any other terminal status produces (HTTPError).
C7_ExhaustedIsHTTPError ==
    (pc = "done" /\ AllRetryable)
        => /\ call.outcome = "HTTPError"
           /\ call.resp.status_code = requests[Len(requests)].status

\* ---- C8: in go(), a fetch that fails is logged and never aborts the
\* batch: once go() has left its loops, or has ended, fetch_with_cache was
\* called for every configured series, and no fetch failure has left go().
C8_FailureNeverAbortsBatch ==
    go.pc \in {"combine", "saving", "finished", "aborted"}
        => /\ \A g \in GroupNames :
                 Range(go.fred_series[g]) \subseteq Range(go.fetched)
           /\ go.raised \in {"none", "ValueError"}

\* ---- C9: a 200 whose payload has no observations key, or has
\* observations null, fails with FetchError in both cases and writes
\* nothing.
C9_MalformedIsFetchError ==
    (pc = "done" /\ call.resp.status_code = 200
                /\ call.resp.body \in {"nokey", "null"})
        => call.outcome = "FetchError" /\ disk = disk0

\* ---- C10: a 304 while no cached data file exists ends as an HTTP failure
\* (HTTPError, the failure go() catches per series); no frame is returned
\* and nothing is written.
C10_NotModifiedWithoutCache ==
    (pc = "done" /\ call.resp.status_code = 304 /\ ~Exists(disk0, call.data_path))
        => /\ call.outcome = "HTTPError"
           /\ call.result = NoFrame
           /\ disk = disk0

\* The running call got a 200 and returned the frame it built and saved.
Refreshed ==
    /\ go.pc = "off" /\ pc = "done"
    /\ call.resp.status_code = 200 /\ call.outcome = "return"

\* ---- C11: after fetch_with_cache completes on a 200 with valid
\* observations, the data file dest/{series_id}.orig.{ext} holds, in the
\* call's format, the normalized frame the call returns, and the sidecar
\* dest/{series_id}.orig.meta.json, the path the next call loads its
\* metadata from, holds fetched_at (the time of the call) and the
\* response's ETag and Last-Modified headers, null for an absent header.
C11_RefreshPersisted ==
    Refreshed =>
        LET paths == CachePaths(DefaultDest, call.series_id, call.fmt)
            next == LoadMetadata(disk, paths[2])
        IN  /\ call.result = Normalize(call.series_id, ObsOf(call.resp.ver))
            /\ Whole(disk[paths[1]])
            /\ disk[paths[1]].enc = call.fmt
            /\ disk[paths[1]].frame = Encode(call.fmt, call.result)
            /\ Exists(disk, paths[2])
            /\ next.ok
            /\ DOMAIN next.value = {"fetched_at", "etag", "last_modified"}
            /\ next.value["fetched_at"] = now
            /\ next.value["etag"] = Get(call.resp.headers, "ETag")
            /\ next.value["last_modified"] = Get(call.resp.headers, "Last-Modified")

\* C11's case: a refresh whose response carried an ETag and no
\* Last-Modified has completed over an earlier sidecar.
C11_Witness ==
    /\ Refreshed
    /\ "ETag" \in DOMAIN call.resp.headers
    /\ "Last-Modified" \notin DOMAIN call.resp.headers
    /\ Exists(disk0, call.meta_path)

\* ---- C12: for each of the three formats, the file save_atomic has
\* renamed onto data_path reads back, in the same format, as a frame with
\* exactly the column set and the row count of the frame that was saved.
C12_RoundTrip ==
    pc \in {"save_meta", "save_meta_open"} =>
        LET back == ReadTable(sv.fmt, disk[sv.data_path])
        IN  /\ back.ok
            /\ Range(back.frame.cols) = Range(sv.df.cols)
            /\ Len(back.frame.rows) = Len(sv.df.rows)

\* ---- C13: a fetch_with_cache call that started with the data file missing
\* or older than max_age_days has sent an HTTP request before it returns;
\* what it returns is the frame of a 200 answer, or the cached file only
\* when the answer was 304.  The freshness check comes before the request
\* and the request before any write: no request is sent by a call that
\* found the cache fresh, and save_atomic runs, and the disk changes, only
\* in a call whose last answer is a 200.
C13_StaleAlwaysAsks ==
    go.pc = "off" =>
        /\ (pc = "done" /\ call.outcome = "return" /\ ~Fresh0) =>
                /\ requests # <<>>
                /\ call.resp.status_code \in {200, 304}
                /\ call.resp.status_code = 200 =>
                        call.result = Normalize(call.series_id, ObsOf(call.resp.ver))
        /\ (pc # "idle" /\ requests # <<>>) => ~Fresh0
        /\ (pc \in {"save_tmp", "save_tmp_open", "save_replace",
                    "save_meta", "save_meta_open"}
              \/ (pc = "done" /\ disk # disk0)) =>
                /\ requests # <<>>
                /\ requests[Len(requests)].status = 200

\* C13's case: a call that found a stale file has returned its content
\* after a 304.
C13_Witness ==
    /\ go.pc = "off" /\ pc = "done" /\ call.outcome = "return"
    /\ Exists(disk0, call.data_path) /\ ~Fresh0
    /\ call.resp.status_code = 304

\* The handlers of a logger that are of the given kind.
HandlersOf(logger, kind) ==
    {i \in 1..Len(logger.handlers) : logger.handlers[i].kind = kind}

\* ---- C14: after any sequence of new_logger calls, the logger last
\* returned is the logger registered under the name asked for, and every
\* logger new_logger has made is named by its registry name and carries
\* exactly one RotatingFileHandler and exactly one StreamHandler on
\* sys.stdout; a further new_logger call leaves the handlers of every
\* logger that already has them as they are.
C14_State ==
    /\ logging.returned = logging.logger_name
    /\ logging.loggerDict[logging.logger_name] # NoLogger
    /\ \A n \in LoggerNames :
          LET logger == logging.loggerDict[n] IN
          logger # NoLogger =>
              /\ logger.name = n
              /\ Len(logger.handlers) = 2
              /\ Cardinality(HandlersOf(logger, "RotatingFileHandler")) = 1
              /\ \E i \in HandlersOf(logger, "StreamHandler") :
                    /\ HandlersOf(logger, "StreamHandler") = {i}
                    /\ logger.handlers[i].target = <<"sys.stdout">>
C14_Step ==
    \A n \in LoggerNames :
        logging.loggerDict[n] # NoLogger =>
            logging'.loggerDict[n].handlers = logging.loggerDict[n].handlers
C14_LoggerHandlers == [](C14_State) /\ [][C14_Step]_vars

\* C14's case: new_logger has been called again for a name it had already
\* set up, with another directory, while a second logger exists too.
C14_Witness ==
    /\ logging.logger_name = "src.utilities"
    /\ <<"logs/etl_clean", "src.utilities">> \in logging.files
    /\ logging.loggerDict["etl.get_data"] # NoLogger

\* ---- C15: a fetch_with_cache call that ends in a failure (a terminal
\* HTTP status, exhausted retries, a malformed payload, a corrupt sidecar,
\* or a write of the temporary file that fails before the rename) leaves
\* the series' data file and its sidecar exactly as they were when the
\* call started.
C15_FailureLeavesCache ==
    (go.pc = "off" /\ pc = "done" /\ call.outcome \notin {"none", "return"}) =>
        /\ disk[call.data_path] = disk0[call.data_path]
        /\ disk[call.meta_path] = disk0[call.meta_path]

\* C15's case: over an existing cache, the write of the temporary file
\* failed and left a cut temporary file behind.
C15_Witness ==
    /\ go.pc = "off" /\ pc = "done" /\ call.outcome = "OSError"
    /\ Exists(disk0, call.data_path) /\ Exists(disk0, call.meta_path)
    /\ Exists(disk, TmpPath(call.data_path))
    /\ ~disk[TmpPath(call.data_path)].complete

\* The validators (etag, last_modified) a dict of metadata or of request
\* headers holds, and the version of the series a validator or a frame is of.
Validators(d) == {d[k] : k \in DOMAIN d} \ {None, <<"">>}
VersionOf(validator) == validator[2]
FrameVersion(df) == Len(df.rows)

\* ---- C16: with one writer and one format per series, in every reachable
\* state, a crash between the rename and the sidecar write included, a
\* sidecar that holds the validators of a response goes with a whole data
\* file holding the frame of that response or of a later one; and a call
\* that returns the cached file on a 304 returns a frame no older than the
\* version whose validators it sent.
C16_SidecarNotNewer ==
    /\ \A s \in CallSeries :
          LET paths == CachePaths(DefaultDest, s, cfgFmt)
              m == LoadMetadata(disk, paths[2])
          IN  (go.pc = "off" /\ m.ok) =>
                  \A x \in Validators([k \in DOMAIN m.value \ {"fetched_at"}
                                           |-> m.value[k]]) :
                      /\ Whole(disk[paths[1]])
                      /\ disk[paths[1]].enc = cfgFmt
                      /\ FrameVersion(disk[paths[1]].frame) >= VersionOf(x)
    /\ (go.pc = "off" /\ pc = "done" /\ call.outcome = "return"
          /\ call.resp.status_code = 304) =>
              \A x \in Validators(call.headers) :
                  FrameVersion(call.result) >= VersionOf(x)

\* C16's case: the program crashed between the rename and the sidecar
\* write, so the data file is of a later version than the sidecar's etag.
C16_Witness ==
    LET paths == CachePaths(DefaultDest, "FOO", cfgFmt)
        m == LoadMetadata(disk, paths[2])
    IN  /\ pc = "idle" /\ go.pc = "off"
        /\ m.ok /\ Get(m.value, "etag") = ETagOf(1)
        /\ Whole(disk[paths[1]])
        /\ FrameVersion(disk[paths[1]].frame) = 2

====
